---- MODULE Spec2Model ----
(***************************************************************************)
(* A model of the reading-guides tools:                                    *)
(*   tools/analyze_book.py   repair_json, call_gemini                      *)
(*   tools/extract_pdf.py    extract_images, detect_chapters               *)
(* Texts are sequences of one-character strings.  Positions inside the     *)
(* JSON decoder and the repair scanner are 0-based, as in the Python code. *)
(***************************************************************************)
EXTENDS Integers, Sequences, FiniteSets, TLC

VARIABLES
    \* repair_json and its driver
    full,            \* the text the input was cut from
    cut,             \* the offset at which it was cut
    text,            \* the argument of repair_json
    out,             \* the value repair_json returned
    rpc,             \* "idle" | "start" | "done"
    \* detect_chapters
    pages,           \* the argument: the pages extract_text_from_pdf returned
    idx,             \* how many pages the loop of line 111 has consumed
    chapters,        \* the list that is returned
    current_chapter, \* the accumulator
    dpc,             \* "idle" | "scan" | "done"
    \* call_gemini
    attempt,         \* the loop variable of line 194
    gpc,             \* "idle" | "request" | "backoff" | "succeeded" | "failed"
    trace,           \* the sleeps and requests of the call, in order
    result,          \* the text whose parse the call returned
    raised,          \* str(e) of the exception the call propagated
    raw_dump,        \* the contents of the raw_<label>.json file
    \* extract_images
    doc,             \* the pages of the PDF: each the list of its embedded images
    page_num,        \* the loop variable of line 40
    img_index,       \* the loop variable of line 44
    extracted,       \* the records of the images saved so far
    img_counter,     \* the number of images saved so far
    seen_hashes,     \* the hashes of the contents met so far
    files,           \* the files of the images directory
    ipc,             \* "idle" | "scan" | "done"
    \* main of analyze_book.py
    mpc,             \* "idle" | "pass1" | "pause" | "pass2" | "done" | "crashed"
    log,             \* the calls of call_gemini and the sleeps of main, in order
    pass1,           \* the result of the structural pass
    pass2,           \* the result of the detail pass
    output,          \* the output file
    exc              \* the exception main ended with, "" when none

repairVars == <<full, cut, text, out, rpc>>
chapterVars == <<pages, idx, chapters, current_chapter, dpc>>
geminiVars == <<attempt, gpc, trace, result, raised, raw_dump>>
imageVars ==
    <<doc, page_num, img_index, extracted, img_counter, seen_hashes, files, ipc>>
mainVars == <<mpc, log, pass1, pass2, output, exc>>

vars ==
    <<full, cut, text, out, rpc, pages, idx, chapters, current_chapter, dpc,
      attempt, gpc, trace, result, raised, raw_dump,
      doc, page_num, img_index, extracted, img_counter, seen_hashes, files, ipc,
      mpc, log, pass1, pass2, output, exc>>

(***************************************************************************)
(* Bounds of the model.                                                    *)
(***************************************************************************)
MaxNodes == 4        \* JSON values have at most this many nodes
MaxLen == 3          \* arbitrary texts have at most this many characters
MaxPages == 3        \* a document has at most this many pages with text
MaxPageNum == 7      \* and at most this many pages
MaxDocPages == 3     \* a PDF scanned for images has at most this many pages
MaxImages == 3       \* and embeds at most this many images in all
MaxMembers == 2      \* a result of call_gemini has at most this many members
MaxTwiceLen == 5     \* texts repaired twice have at most this many characters

(***************************************************************************)
(* Characters and small text helpers.                                      *)
(***************************************************************************)
QUOTE == "\""
BACKSLASH == "\\"
NEWLINE == "\n"
SPACE == " "
\* The grave accent, which a TLA+ string cannot hold: an atom stands for it.
BACKTICK == "GRAVE"

\* The character at 0-based index i, "" past either end.
At(s, i) == IF i >= 0 /\ i < Len(s) THEN s[i + 1] ELSE ""

\* s[:n]
Prefix(s, n) == SubSeq(s, 1, n)

Last(s) == s[Len(s)]
Front(s) == SubSeq(s, 1, Len(s) - 1)

\* str.rstrip(chars): drop every trailing character that is in chars.
RECURSIVE RStrip(_, _)
RStrip(s, chars) ==
    IF s # <<>> /\ Last(s) \in chars THEN RStrip(Front(s), chars) ELSE s

\* The characters str.rstrip() and str.strip() remove (those of the model).
Whitespace == {SPACE, NEWLINE}

(***************************************************************************)
(* json.loads, restricted to the characters of the model: the structural   *)
(* characters, the quote, the backslash, the digit 1, blank, newline; any  *)
(* other character is an ordinary one, legal only inside a string.  The    *)
(* result is where the value ends, or the message and position of the      *)
(* JSONDecodeError.                                                        *)
(***************************************************************************)
MsgExpectingValue == <<"E", "x", "p", "e", "c", "t", "i", "n", "g", " ", "v", "a", "l", "u", "e">>
MsgExtraData == <<"E", "x", "t", "r", "a", " ", "d", "a", "t", "a">>
MsgExpectingComma == <<"E", "x", "p", "e", "c", "t", "i", "n", "g", " ", "'", ",", "'", " ", "d", "e", "l", "i", "m", "i", "t", "e", "r">>
MsgExpectingColon == <<"E", "x", "p", "e", "c", "t", "i", "n", "g", " ", "'", ":", "'", " ", "d", "e", "l", "i", "m", "i", "t", "e", "r">>
MsgExpectingName == <<"E", "x", "p", "e", "c", "t", "i", "n", "g", " ", "p", "r", "o", "p", "e", "r", "t", "y", " ", "n", "a", "m", "e", " ", "e", "n", "c", "l", "o", "s", "e", "d", " ", "i", "n", " ", "d", "o", "u", "b", "l", "e", " ", "q", "u", "o", "t", "e", "s">>
MsgUnterminated == <<"U", "n", "t", "e", "r", "m", "i", "n", "a", "t", "e", "d", " ", "s", "t", "r", "i", "n", "g", " ", "s", "t", "a", "r", "t", "i", "n", "g", " ", "a", "t">>
MsgControlChar == <<"I", "n", "v", "a", "l", "i", "d", " ", "c", "o", "n", "t", "r", "o", "l", " ", "c", "h", "a", "r", "a", "c", "t", "e", "r", " ", "a", "t">>
MsgInvalidEscape == <<"I", "n", "v", "a", "l", "i", "d", " ", "\\", "e", "s", "c", "a", "p", "e">>

Ok(e) == [ok |-> TRUE, nxt |-> e, msg |-> <<>>, pos |-> 0]
Err(m, p) == [ok |-> FALSE, nxt |-> 0, msg |-> m, pos |-> p]

\* The first index >= i that holds no JSON whitespace.
skipws(s, i) ==
    IF At(s, i) \notin Whitespace THEN i
    ELSE CHOOSE j \in (i + 1)..Len(s) :
             /\ At(s, j) \notin Whitespace
             /\ \A k \in i..(j - 1) : At(s, k) \in Whitespace

\* The body of a string literal whose opening quote is at begin; i scans it.
RECURSIVE scanstring(_, _, _)
scanstring(s, begin, i) ==
    LET c == At(s, i) IN
    IF c = "" THEN Err(MsgUnterminated, begin)
    ELSE IF c = QUOTE THEN Ok(i + 1)
    ELSE IF c = NEWLINE THEN Err(MsgControlChar, i)
    ELSE IF c = BACKSLASH THEN
        IF At(s, i + 1) = "" THEN Err(MsgUnterminated, begin)
        ELSE IF At(s, i + 1) \in {QUOTE, BACKSLASH} THEN scanstring(s, begin, i + 2)
        ELSE Err(MsgInvalidEscape, i)
    ELSE scanstring(s, begin, i + 1)

\* The end of the run of digits that starts at i.
RECURSIVE number_end(_, _)
number_end(s, i) == IF At(s, i) = "1" THEN number_end(s, i + 1) ELSE i

RECURSIVE scan_once(_, _)
RECURSIVE object_members(_, _)
RECURSIVE array_items(_, _)

parse_object(s, i) ==
    LET j == skipws(s, i) IN
    IF At(s, j) = "}" THEN Ok(j + 1) ELSE object_members(s, j)

parse_array(s, i) ==
    LET j == skipws(s, i) IN
    IF At(s, j) = "]" THEN Ok(j + 1) ELSE array_items(s, j)

scan_once(s, i) ==
    LET c == At(s, i) IN
    IF c = QUOTE THEN scanstring(s, i, i + 1)
    ELSE IF c = "{" THEN parse_object(s, i + 1)
    ELSE IF c = "[" THEN parse_array(s, i + 1)
    ELSE IF c = "1" THEN Ok(number_end(s, i))
    ELSE Err(MsgExpectingValue, i)

object_members(s, i) ==
    IF At(s, i) # QUOTE THEN Err(MsgExpectingName, i)
    ELSE
        LET k == scanstring(s, i, i + 1) IN
        IF ~k.ok THEN k
        ELSE
            LET j == skipws(s, k.nxt) IN
            IF At(s, j) # ":" THEN Err(MsgExpectingColon, j)
            ELSE
                LET v == scan_once(s, skipws(s, j + 1)) IN
                IF ~v.ok THEN v
                ELSE
                    LET e == skipws(s, v.nxt) IN
                    IF At(s, e) = "}" THEN Ok(e + 1)
                    ELSE IF At(s, e) # "," THEN Err(MsgExpectingComma, e)
                    ELSE object_members(s, skipws(s, e + 1))

array_items(s, i) ==
    LET v == scan_once(s, i) IN
    IF ~v.ok THEN v
    ELSE
        LET e == skipws(s, v.nxt) IN
        IF At(s, e) = "]" THEN Ok(e + 1)
        ELSE IF At(s, e) # "," THEN Err(MsgExpectingComma, e)
        ELSE array_items(s, skipws(s, e + 1))

\* json.loads(s): Ok, or the JSONDecodeError it raises.
json_loads(s) ==
    LET r == scan_once(s, skipws(s, 0)) IN
    IF ~r.ok THEN r
    ELSE
        LET e == skipws(s, r.nxt) IN
        IF e # Len(s) THEN Err(MsgExtraData, e) ELSE Ok(e)

IsJSON(s) == json_loads(s).ok

(***************************************************************************)
(* repair_json (analyze_book.py 148-182).                                  *)
(***************************************************************************)
ScanInit ==
    [stack |-> <<>>, last_valid |-> 0, in_string |-> FALSE, escape |-> FALSE]

\* A scanner that tracks no string literals: brackets inside strings count.
ScanCharNoStrings(st, ch, i) ==
    IF ch \in {"{", "["} THEN [st EXCEPT !.stack = Append(@, ch)]
    ELSE IF ch = "}" /\ st.stack # <<>> /\ Last(st.stack) = "{"
        THEN [st EXCEPT !.stack = Front(@), !.last_valid = i + 1]
    ELSE IF ch = "]" /\ st.stack # <<>> /\ Last(st.stack) = "["
        THEN [st EXCEPT !.stack = Front(@), !.last_valid = i + 1]
    ELSE st

\* One iteration of the loop of lines 155-174, on character ch at index i.
ScanChar(st, ch, i) ==
    IF st.escape THEN [st EXCEPT !.escape = FALSE]
    ELSE IF ch = BACKSLASH /\ st.in_string THEN [st EXCEPT !.escape = TRUE]
    ELSE IF ch = QUOTE /\ ~st.escape THEN [st EXCEPT !.in_string = ~@]
    ELSE IF st.in_string THEN st
    ELSE IF ch \in {"{", "["} THEN [st EXCEPT !.stack = Append(@, ch)]
    ELSE IF ch = "}" /\ st.stack # <<>> /\ Last(st.stack) = "{"
        THEN [st EXCEPT !.stack = Front(@), !.last_valid = i + 1]
    ELSE IF ch = "]" /\ st.stack # <<>> /\ Last(st.stack) = "["
        THEN [st EXCEPT !.stack = Front(@), !.last_valid = i + 1]
    ELSE st

\* The scanner's state after the characters at offsets lo..hi-1 of s, from
\* state st.  The range is halved, and the state after the left half is
\* evaluated (by the test on it) before the right half is entered, so that
\* the evaluation of a long text stays shallow.
RECURSIVE ScanFrom(_, _, _, _)
ScanFrom(s, lo, hi, st) ==
    IF lo >= hi THEN st
    ELSE IF hi = lo + 1 THEN ScanChar(st, s[lo + 1], lo)
    ELSE LET mid == (lo + hi) \div 2
             left == ScanFrom(s, lo, mid, st)
         IN  IF left.last_valid >= 0 THEN ScanFrom(s, mid, hi, left) ELSE left

\* The scanner's state after the whole of s.
Scan(s) == ScanFrom(s, 0, Len(s), ScanInit)

\* A closer for the innermost open bracket alone.
ClosersTopOnly(stack) ==
    IF stack = <<>> THEN <<>>
    ELSE <<IF Last(stack) = "{" THEN "}" ELSE "]">>

\* Lines 180-181: one closer per open bracket, the last opened first.
RECURSIVE Closers(_)
Closers(stack) ==
    IF stack = <<>> THEN <<>>
    ELSE <<IF Last(stack) = "{" THEN "}" ELSE "]">> \o Closers(Front(stack))

repair_json(s) ==
    LET st == Scan(s) IN
    IF st.stack = <<>> THEN s
    ELSE RStrip(RStrip(Prefix(s, st.last_valid), Whitespace), {","})
             \o Closers(st.stack)

(***************************************************************************)
(* detect_chapters (extract_pdf.py 92-152).                                *)
(***************************************************************************)
Digits == {"0", "1", "2", "3", "4", "5", "6", "7", "8", "9"}
RomanDigits == {"I", "V", "X", "L", "C"}

WordChapter == <<"C", "h", "a", "p", "t", "e", "r">>
WordCHAPTER == <<"C", "H", "A", "P", "T", "E", "R">>
WordPart == <<"P", "a", "r", "t">>
WordPART == <<"P", "A", "R", "T">>
TitleFrontMatter == <<"F", "r", "o", "n", "t", " ", "M", "a", "t", "t", "e", "r">>

\* ^ under re.MULTILINE: the start of the text or just after a newline.
LineStart(s, i) == i = 0 \/ At(s, i - 1) = NEWLINE

\* The word w stands in s at index i.
StartsWithAt(s, i, w) == \A k \in 1..Len(w) : At(s, i + k - 1) = w[k]

\* The end of the longest run of characters of set cs that starts at i.
RECURSIVE RunEnd(_, _, _)
RunEnd(s, i, cs) == IF At(s, i) \in cs THEN RunEnd(s, i + 1, cs) ELSE i

\* ^word\s+[cs]+ : the word at a line start, white space, a character of cs.
WordThenClass(s, w, cs) ==
    \E i \in 0..(Len(s) - 1) :
        /\ LineStart(s, i)
        /\ StartsWithAt(s, i, w)
        /\ LET j == i + Len(w)
               k == RunEnd(s, j, Whitespace)
           IN  k > j /\ At(s, k) \in cs

\* re.search(chapter_patterns[n], text, re.MULTILINE) finds a match.
PatternMatches(n, s) ==
    CASE n = 1 -> WordThenClass(s, WordChapter, Digits)
                  \/ WordThenClass(s, WordCHAPTER, Digits)
      [] n = 2 -> \E i \in 0..(Len(s) - 1) :
                      /\ LineStart(s, i)
                      /\ At(s, i) \in Digits
                      /\ LET j == RunEnd(s, i, Digits)
                             k == RunEnd(s, j, Whitespace)
                         IN  \E m \in j..(k - 1) : At(s, m) = NEWLINE
      [] n = 3 -> WordThenClass(s, WordPart, RomanDigits)
      [] n = 4 -> WordThenClass(s, WordPART, RomanDigits)

NumPatterns == 4

\* A guard that lets page 5 through.
EarlyPageGuardFrom5(page) == page.page_num >= 5

\* No guard at all: a heading counts on any page.
NoEarlyPageGuard(page) == TRUE

\* Line 117: the page lies beyond the early pages.
EarlyPageGuard(page) == page.page_num > 5

\* The loop of lines 115-139 takes its branch for this page.
Honored(page) ==
    \E n \in 1..NumPatterns : PatternMatches(n, page.text) /\ EarlyPageGuard(page)

\* str.split('\n')
RECURSIVE SplitLines(_)
SplitLines(s) ==
    IF \A i \in 1..Len(s) : s[i] # NEWLINE THEN <<s>>
    ELSE LET n == CHOOSE i \in 1..Len(s) :
                     s[i] = NEWLINE /\ \A j \in 1..(i - 1) : s[j] # NEWLINE
         IN  <<SubSeq(s, 1, n - 1)>> \o SplitLines(SubSeq(s, n + 1, Len(s)))

RECURSIVE LStrip(_, _)
LStrip(s, chars) ==
    IF s # <<>> /\ s[1] \in chars THEN LStrip(Tail(s), chars) ELSE s

\* str.strip()
Strip(s) == LStrip(RStrip(s, Whitespace), Whitespace)

\* sep.join(parts)
RECURSIVE Join(_, _)
Join(parts, sep) ==
    IF parts = <<>> THEN <<>>
    ELSE IF Len(parts) = 1 THEN parts[1]
    ELSE parts[1] \o sep \o Join(Tail(parts), sep)

\* [f(x) for x in s if x]: the non-empty stripped lines, in order.
RECURSIVE StrippedNonEmpty(_)
StrippedNonEmpty(ls) ==
    IF ls = <<>> THEN <<>>
    ELSE (IF Strip(ls[1]) # <<>> THEN <<Strip(ls[1])>> ELSE <<>>)
             \o StrippedNonEmpty(Tail(ls))

\* s[:n]
FirstN(s, n) == SubSeq(s, 1, IF Len(s) < n THEN Len(s) ELSE n)

\* Lines 126-128: the first two non-empty lines among the first five.
TitleOf(s) ==
    Join(FirstN(StrippedNonEmpty(FirstN(SplitLines(s), 5)), 2), <<SPACE>>)

\* Lines 102-109.
FrontMatter ==
    [chapter_num |-> 0, title |-> TitleFrontMatter, pages |-> <<>>,
     start_page |-> 1, end_page |-> 1, text |-> <<>>]

PageTextsOf(ps) == [i \in 1..Len(ps) |-> ps[i].text]

\* A close that leaves end_page as it was set when the chapter was opened.
CloseChapterKeepEnd(ch) ==
    [ch EXCEPT !.text = Join(PageTextsOf(ch.pages), <<NEWLINE, NEWLINE>>),
               !.start_page = ch.pages[1].page_num]

\* Lines 119-123 and 145-149: text, start_page and end_page of a chapter
\* that has pages.
CloseChapter(ch) ==
    [ch EXCEPT !.text = Join(PageTextsOf(ch.pages), <<NEWLINE, NEWLINE>>),
               !.start_page = ch.pages[1].page_num,
               !.end_page = Last(ch.pages).page_num]

\* Lines 118-124 and 144-150: chapters after the accumulator is closed.
Closed(chs, ch) ==
    IF ch.pages # <<>> THEN Append(chs, CloseChapter(ch)) ELSE chs

\* An accumulator that starts without the page that carries the heading.
NewChapterNoPage(chs, page) ==
    [chapter_num |-> Len(chs) + 1, title |-> TitleOf(page.text),
     pages |-> <<>>, start_page |-> page.page_num,
     end_page |-> page.page_num, text |-> <<>>]

\* Lines 130-137: the accumulator opened by a heading on page, chs being
\* the chapters already returned.
NewChapter(chs, page) ==
    [chapter_num |-> Len(chs) + 1, title |-> TitleOf(page.text),
     pages |-> <<page>>, start_page |-> page.page_num,
     end_page |-> page.page_num, text |-> <<>>]

(***************************************************************************)
(* call_gemini (analyze_book.py 189-239): the helpers.                     *)
(***************************************************************************)
max_retries == 3
base_delay == 30

\* A delay that grows by base_delay per retry instead of doubling.
BackoffDelayLinear(n) == base_delay * n

\* Line 197: the delay before attempt n, n > 0.
BackoffDelay(n) == base_delay * (2 ^ (n - 1))

UpperCase == <<"A", "B", "C", "D", "E", "F", "G", "H", "I", "J", "K", "L", "M", "N", "O", "P", "Q", "R", "S", "T", "U", "V", "W", "X", "Y", "Z">>
LowerCase == <<"a", "b", "c", "d", "e", "f", "g", "h", "i", "j", "k", "l", "m", "n", "o", "p", "q", "r", "s", "t", "u", "v", "w", "x", "y", "z">>
DecimalDigits == <<"0", "1", "2", "3", "4", "5", "6", "7", "8", "9">>

\* str.lower()
Lower(s) ==
    [i \in 1..Len(s) |->
        IF \E k \in 1..26 : UpperCase[k] = s[i]
        THEN LowerCase[CHOOSE k \in 1..26 : UpperCase[k] = s[i]]
        ELSE s[i]]

\* sub in s
Contains(s, sub) ==
    \E i \in 0..(Len(s) - Len(sub)) : StartsWithAt(s, i, sub)

\* str(n) for n >= 0
RECURSIVE Decimal(_)
Decimal(n) ==
    IF n < 10 THEN <<DecimalDigits[n + 1]>>
    ELSE Decimal(n \div 10) \o <<DecimalDigits[(n % 10) + 1]>>

\* str(e) of the JSONDecodeError that json.loads(s) raises with message msg
\* at position pos: "msg: line L column C (char pos)".
DecodeErrorStr(s, msg, pos) ==
    LET newlines == { i \in 1..pos : s[i] = NEWLINE }
        lineno == Cardinality(newlines) + 1
        colno == IF newlines = {} THEN pos + 1
                 ELSE pos - ((CHOOSE i \in newlines : \A j \in newlines : j <= i) - 1)
    IN  msg \o <<":", " ", "l", "i", "n", "e", " ">> \o Decimal(lineno)
            \o <<" ", "c", "o", "l", "u", "m", "n", " ">> \o Decimal(colno)
            \o <<" ", "(", "c", "h", "a", "r", " ">> \o Decimal(pos) \o <<")">>

\* str(e) of the IndexError of line 214.
MsgIndexError == <<"l", "i", "s", "t", " ", "i", "n", "d", "e", "x", " ", "o", "u", "t", " ", "o", "f", " ", "r", "a", "n", "g", "e">>

Fence == <<BACKTICK, BACKTICK, BACKTICK>>

\* s.endswith(suffix)
EndsWith(s, suffix) ==
    Len(s) >= Len(suffix) /\ StartsWithAt(s, Len(s) - Len(suffix), suffix)

\* Lines 212-216: the response text stripped and freed of a code fence;
\* ok is FALSE when line 214 raises IndexError (a fence and no newline).
CleanResponse(raw) ==
    LET t == Strip(raw) IN
    IF ~StartsWithAt(t, 0, Fence) THEN [ok |-> TRUE, text |-> t]
    ELSE IF \A i \in 1..Len(t) : t[i] # NEWLINE THEN [ok |-> FALSE, text |-> t]
    ELSE LET n == CHOOSE i \in 1..Len(t) :
                      t[i] = NEWLINE /\ \A j \in 1..(i - 1) : t[j] # NEWLINE
             rest == SubSeq(t, n + 1, Len(t))
         IN  [ok |-> TRUE,
              text |-> IF EndsWith(rest, Fence)
                       THEN SubSeq(rest, 1, Len(rest) - 3) ELSE rest]

\* A test that takes every error for a rate-limit error.
IndicatesRateLimitAlways(err) == TRUE

\* Line 233: the error text carries a rate-limit or quota indicator.
IndicatesRateLimit(err) ==
    \/ Contains(err, <<"4", "2", "9">>)
    \/ Contains(Lower(err), <<"q", "u", "o", "t", "a">>)
    \/ Contains(Lower(err), <<"r", "a", "t", "e">>)

\* Lines 224-229: what the parse of the cleaned text t comes to: "parsed",
\* "repaired" (with the text that parsed), or "repair_failed" (with str(e)).
ParseOutcome(t) ==
    IF IsJSON(t) THEN [outcome |-> "parsed", doc |-> t, err |-> <<>>]
    ELSE LET repaired == repair_json(t)
             r == json_loads(repaired)
         IN  IF r.ok THEN [outcome |-> "repaired", doc |-> repaired, err |-> <<>>]
             ELSE [outcome |-> "repair_failed", doc |-> <<>>,
                   err |-> DecodeErrorStr(repaired, r.msg, r.pos)]

(***************************************************************************)
(* extract_images (extract_pdf.py 29-89): the helpers.                     *)
(***************************************************************************)
min_size == 20000

\* The byte contents of the embedded images of the model.  What
\* doc.extract_image reports of an image (its bytes' length, its pixel
\* dimensions, its format) is read from the bytes, so it is the same for
\* every embedded image of the same content:
\*   "A"  a photograph, well above both floors;
\*   "B"  an image exactly on the floors (20000 bytes, 150 x 150);
\*   "N"  enough bytes, one dimension below 150;
\*   "T"  fewer than min_size bytes, large dimensions.
ImageContents == {"A", "B", "N", "T"}

\* len(image_bytes)
SizeOf(c) ==
    CASE c = "A" -> 25000 [] c = "B" -> 20000 [] c = "N" -> 50000 [] c = "T" -> 19999
\* base_image.get("width", 0)
WidthOf(c) ==
    CASE c = "A" -> 200 [] c = "B" -> 150 [] c = "N" -> 149 [] c = "T" -> 800
\* base_image.get("height", 0)
HeightOf(c) ==
    CASE c = "A" -> 300 [] c = "B" -> 150 [] c = "N" -> 400 [] c = "T" -> 600
\* base_image.get("ext", "png")
ExtOf(c) ==
    IF c = "B" THEN <<"j", "p", "e", "g">> ELSE <<"p", "n", "g">>

\* Line 57: hashlib.md5(image_bytes).hexdigest(); distinct contents of the
\* model have distinct digests.
Md5(c) == <<"md5", c>>

\* Line 53: the image is below the byte-size floor.
TooFewBytes(c) == SizeOf(c) < min_size

\* Line 67: the image is below the dimension floor.
TooSmall(c) == WidthOf(c) < 150 \/ HeightOf(c) < 150

\* A set of hashes that records nothing.
SeenAddForgets(seen, h) == seen

\* Line 60: seen_hashes.add(img_hash)
SeenAdd(seen, h) == seen \cup {h}

\* The format specifications 03d and 02d: n in decimal, zero-padded to w.
ZeroPad(n, w) ==
    LET d == Decimal(n) IN [i \in 1..(w - Len(d)) |-> "0"] \o d

\* Line 71: f"page{page_num + 1:03d}_img{img_counter:02d}.{ext}"
Filename(pn, counter, ext) ==
    <<"p", "a", "g", "e">> \o ZeroPad(pn + 1, 3) \o <<"_", "i", "m", "g">>
        \o ZeroPad(counter, 2) \o <<".">> \o ext

\* Lines 77-84: the record of the image of content c found on the page of
\* index pn and saved as filename.
ImageRecord(filename, pn, c) ==
    [filename |-> filename, page_num |-> pn + 1, width |-> WidthOf(c),
     height |-> HeightOf(c), size_bytes |-> SizeOf(c), caption |-> <<>>]

\* Lines 74-75: the files of the directory after filename is written.
Written(fs, filename, c) ==
    { f \in fs : f.name # filename } \cup {[name |-> filename, bytes |-> c]}

(***************************************************************************)
(* main of analyze_book.py (246-295): the helpers.  A parsed JSON document *)
(* is a tagged value: an object keeps its members in order, as a dict.     *)
(***************************************************************************)
PauseSeconds == 15

JNumber(n) == [type |-> "number", n |-> n]
JArray(items) == [type |-> "array", items |-> items]
JObject(members) == [type |-> "object", members |-> members]
Member(k, v) == [key |-> k, value |-> v]

\* k in d, for an object d
HasKey(d, k) == \E i \in 1..Len(d.members) : d.members[i].key = k

\* d.get(k, default), for an object d
Get(d, k, default) ==
    IF HasKey(d, k)
    THEN d.members[CHOOSE i \in 1..Len(d.members) : d.members[i].key = k].value
    ELSE default

\* len(v) raises TypeError
LenRaises(v) == v.type \notin {"array", "object", "string"}

MsgNoGet == "AttributeError: object has no attribute 'get'"
MsgNoLen == "TypeError: object has no len()"

SummaryKeys == <<"books", "concepts", "flashcards", "quizQuestions", "scenarios">>

\* Lines 265-267: what the summary of the structural result raises, "" when
\* it raises nothing: .get on a value that is no object, len() of a value
\* that has no length.
SummaryError(d) ==
    IF d.type # "object" THEN MsgNoGet
    ELSE IF \E i \in 1..Len(SummaryKeys) : LenRaises(Get(d, SummaryKeys[i], JArray(<<>>)))
         THEN MsgNoLen
    ELSE ""

\* Lines 276-277: what the reading of the detail result raises.
DetailError(d) ==
    IF d.type # "object" THEN MsgNoGet
    ELSE IF LenRaises(Get(d, "chapters_detail", JArray(<<>>))) THEN MsgNoLen
    ELSE ""

\* Line 276: chapters = pass2.get("chapters_detail", [])
ChaptersDetail(d) == Get(d, "chapters_detail", JArray(<<>>))

\* A merge that keeps the chapters_detail the structural result came with.
MergeKeepsFirst(d, detail) ==
    IF HasKey(d, "chapters_detail") THEN d
    ELSE JObject(Append(d.members, Member("chapters_detail", detail)))

\* Line 280: {**pass1, "chapters_detail": chapters}
Merge(d, detail) ==
    IF HasKey(d, "chapters_detail")
    THEN JObject([i \in 1..Len(d.members) |->
                    IF d.members[i].key = "chapters_detail"
                    THEN Member("chapters_detail", detail)
                    ELSE d.members[i]])
    ELSE JObject(Append(d.members, Member("chapters_detail", detail)))

\* Lines 285-287: what the report after the write raises.
ReportError(book_data) ==
    IF Get(book_data, "meta", JObject(<<>>)).type # "object" THEN MsgNoGet
    ELSE ""

\* No output file.
NoFile == [written |-> FALSE, document |-> JObject(<<>>)]

\* Lines 282-283: the output file after json.dump(book_data, f).
Dumped(book_data) == [written |-> TRUE, document |-> book_data]

(***************************************************************************)
(* The state of a tool that is not running.                                *)
(***************************************************************************)
RepairIdle ==
    full = <<>> /\ cut = 0 /\ text = <<>> /\ out = <<>> /\ rpc = "idle"

ChaptersIdle ==
    /\ pages = <<>> /\ idx = 0 /\ chapters = <<>>
    /\ current_chapter = FrontMatter /\ dpc = "idle"

GeminiIdle ==
    /\ attempt = 0 /\ gpc = "idle" /\ trace = <<>> /\ result = <<>>
    /\ raised = <<>> /\ raw_dump = <<>>

ImagesIdle ==
    /\ doc = <<>> /\ page_num = 0 /\ img_index = 0 /\ extracted = <<>>
    /\ img_counter = 0 /\ seen_hashes = {} /\ files = {} /\ ipc = "idle"

MainIdle ==
    /\ mpc = "idle" /\ log = <<>> /\ pass1 = JObject(<<>>) /\ pass2 = JObject(<<>>)
    /\ output = NoFile /\ exc = ""

(***************************************************************************)
(* The inputs of repair_json: every prefix of the serialization of every   *)
(* JSON value of at most MaxNodes nodes, and every text of at most MaxLen  *)
(* characters.                                                             *)
(***************************************************************************)
RepairChars == {"{", "}", "[", "]", QUOTE, BACKSLASH, ",", ":", "1", "a", SPACE}

\* Scalars as json.dumps writes them: 1, "a", and "[\"" (a string that holds
\* a bracket and an escaped quote); and the two empty containers.
Atoms ==
    { <<"1">>, <<QUOTE, "a", QUOTE>>, <<QUOTE, "[", BACKSLASH, QUOTE, QUOTE>>,
      <<"[", "]">>, <<"{", "}">> }

KeyText == <<QUOTE, "a", QUOTE, ":", SPACE>>
ItemSep == <<",", SPACE>>

\* ValueTexts[n]: the serializations (json.dumps, default separators) of the
\* values of exactly n nodes; lists[n] / members[n]: the comma-joined bodies
\* of non-empty arrays / objects whose elements have n nodes in all.
RECURSIVE ValueTexts(_)
RECURSIVE ItemLists(_)
RECURSIVE MemberLists(_)
ValueTexts(n) ==
    IF n = 1 THEN Atoms
    ELSE { <<"[">> \o l \o <<"]">> : l \in ItemLists(n - 1) }
         \cup { <<"{">> \o m \o <<"}">> : m \in MemberLists(n - 1) }
ItemLists(n) ==
    ValueTexts(n)
    \cup UNION { { v \o ItemSep \o l : v \in ValueTexts(k), l \in ItemLists(n - k) }
                 : k \in 1..(n - 1) }
MemberLists(n) ==
    { KeyText \o v : v \in ValueTexts(n) }
    \cup UNION { { KeyText \o v \o ItemSep \o m : v \in ValueTexts(k), m \in MemberLists(n - k) }
                 : k \in 1..(n - 1) }

\* The serializations of the values of at most n nodes.
Serializations(n) == UNION { ValueTexts(k) : k \in 1..n }

RECURSIVE TextsOfLen(_)
TextsOfLen(n) ==
    IF n = 0 THEN { <<>> }
    ELSE { Append(t, c) : t \in TextsOfLen(n - 1), c \in RepairChars }

\* Every text of at most n characters.
ArbitraryTexts(n) == UNION { TextsOfLen(k) : k \in 0..n }

RepairInit ==
    /\ \/ /\ full \in Serializations(MaxNodes)
          /\ cut \in 0..Len(full)
       \/ /\ full \in ArbitraryTexts(MaxLen)
          /\ cut = Len(full)
    /\ text = Prefix(full, cut)
    /\ out = <<>>
    /\ rpc = "start"
    /\ ChaptersIdle
    /\ GeminiIdle
    /\ ImagesIdle
    /\ MainIdle

\* The driver applies repair_json to the text.
Repair ==
    /\ rpc = "start"
    /\ out' = repair_json(text)
    /\ rpc' = "done"
    /\ UNCHANGED <<full, cut, text>>
    /\ UNCHANGED <<chapterVars, geminiVars, imageVars, mainVars>>

RepairNext == Repair

\* The characters of the texts repaired twice: the brackets, the quote, the
\* backslash, the comma, an ordinary character and a blank.
TwiceChars == {"{", "}", "[", "]", QUOTE, BACKSLASH, ",", "a", SPACE}

\* Every text of at most n characters of chars.
RECURSIVE TextsOver(_, _)
TextsOver(chars, n) ==
    IF n = 0 THEN { <<>> }
    ELSE LET shorter == TextsOver(chars, n - 1) IN
         shorter \cup
         { Append(t, c) : t \in { s \in shorter : Len(s) = n - 1 }, c \in chars }

RepairTwiceInit ==
    /\ full \in TextsOver(TwiceChars, MaxTwiceLen)
    /\ cut = Len(full)
    /\ text = full
    /\ out = <<>>
    /\ rpc = "start"
    /\ ChaptersIdle
    /\ GeminiIdle
    /\ ImagesIdle
    /\ MainIdle

\* The driver applies repair_json to the result of the first application.
RepairAgain ==
    /\ rpc = "done"
    /\ text' = out
    /\ out' = repair_json(out)
    /\ rpc' = "again"
    /\ UNCHANGED <<full, cut>>
    /\ UNCHANGED <<chapterVars, geminiVars, imageVars, mainVars>>

RepairTwiceNext == Repair \/ RepairAgain

(***************************************************************************)
(* The inputs of detect_chapters and its steps.                            *)
(***************************************************************************)
\* The texts of the pages of the model: one without a heading, one per
\* heading pattern.
TextBody == <<"b", "o", "d", "y">>
TextChapter == <<"C", "h", "a", "p", "t", "e", "r", " ", "1", "\n", "I", "n", "t", "r", "o">>
TextNumber == <<"2", "\n", "T", "w", "o">>
TextPart == <<"P", "a", "r", "t", " ", "I">>
TextPART == <<"x", "\n", "P", "A", "R", "T", " ", "I", "I">>
PageTexts == {TextBody, TextChapter, TextNumber, TextPart, TextPART}

\* The pages of section 8 of the specification: seven pages, a heading on
\* page 6 alone.
ExamplePages ==
    << [page_num |-> 1, text |-> <<"c", "o", "v", "e", "r">>],
       [page_num |-> 2, text |-> <<"t", "o", "c">>],
       [page_num |-> 3, text |-> <<".", ".", ".">>],
       [page_num |-> 4, text |-> <<".", ".", ".">>],
       [page_num |-> 5, text |-> <<".", ".", ".">>],
       [page_num |-> 6, text |-> TextChapter],
       [page_num |-> 7, text |-> TextBody] >>

\* extract_text_from_pdf (lines 14-26) numbers the pages from 1 and drops
\* the blank ones: page_num increases strictly, with gaps.
RECURSIVE PageSeqs(_, _)
PageSeqs(n, low) ==
    IF n = 0 THEN { <<>> }
    ELSE { <<>> } \cup
         UNION { { <<[page_num |-> p, text |-> t]>> \o rest :
                       t \in PageTexts, rest \in PageSeqs(n - 1, p + 1) }
                 : p \in low..MaxPageNum }

ChaptersInit ==
    /\ pages \in PageSeqs(MaxPages, 1) \cup {ExamplePages}
    /\ idx = 0
    /\ chapters = <<>>
    /\ current_chapter = FrontMatter
    /\ dpc = "scan"
    /\ RepairIdle
    /\ GeminiIdle
    /\ ImagesIdle
    /\ MainIdle

\* One pass of the loop of line 111 on a page that carries an honored
\* heading (lines 117-139).
ScanHeading ==
    /\ dpc = "scan"
    /\ idx < Len(pages)
    /\ Honored(pages[idx + 1])
    /\ chapters' = Closed(chapters, current_chapter)
    /\ current_chapter' = NewChapter(chapters', pages[idx + 1])
    /\ idx' = idx + 1
    /\ UNCHANGED <<pages, dpc>>
    /\ UNCHANGED <<repairVars, geminiVars, imageVars, mainVars>>

\* One pass of the loop on any other page (lines 141-142).
ScanAppend ==
    /\ dpc = "scan"
    /\ idx < Len(pages)
    /\ ~Honored(pages[idx + 1])
    /\ current_chapter' =
           [current_chapter EXCEPT !.pages = Append(@, pages[idx + 1])]
    /\ idx' = idx + 1
    /\ UNCHANGED <<pages, chapters, dpc>>
    /\ UNCHANGED <<repairVars, geminiVars, imageVars, mainVars>>

\* Lines 144-152: the last accumulator is closed and chapters returned.
Finish ==
    /\ dpc = "scan"
    /\ idx = Len(pages)
    /\ chapters' = Closed(chapters, current_chapter)
    /\ dpc' = "done"
    /\ UNCHANGED <<pages, idx, current_chapter>>
    /\ UNCHANGED <<repairVars, geminiVars, imageVars, mainVars>>

ChaptersNext == ScanHeading \/ ScanAppend \/ Finish

(***************************************************************************)
(* The inputs of call_gemini and its steps.                                *)
(***************************************************************************)
\* What model.generate_content raises: str(e) of the exception.
TransportErrors ==
    { <<"4", "2", "9", " ", "T", "o", "o", " ", "M", "a", "n", "y", " ", "R", "e", "q", "u", "e", "s", "t", "s">>,
      <<"Q", "u", "o", "t", "a", " ", "e", "x", "c", "e", "e", "d", "e", "d">>,
      <<"R", "a", "t", "e", " ", "l", "i", "m", "i", "t">>,
      <<"5", "0", "0", " ", "I", "n", "t", "e", "r", "n", "a", "l", " ", "e", "r", "r", "o", "r">> }

\* [1, 427 blanks, a]: brackets balanced, and not JSON from offset 429 on.
LongText ==
    <<"[", "1">> \o [i \in 1..427 |-> SPACE] \o <<"a", "]">>

\* What response.text holds: valid JSON, bare, padded and fenced; a fence
\* without a newline; a cut text that repair_json mends; one it does not;
\* and LongText.
ResponseTexts ==
    { <<"{", QUOTE, "a", QUOTE, ":", " ", "1", "}">>,
      <<" ", "[", "1", "]", " ">>,
      <<BACKTICK, BACKTICK, BACKTICK, "j", "s", "o", "n", NEWLINE, "[", "1", "]", NEWLINE, BACKTICK, BACKTICK, BACKTICK>>,
      <<BACKTICK, BACKTICK, BACKTICK, "[", "1", "]", BACKTICK, BACKTICK, BACKTICK>>,
      <<"[", "[", "1", "]", ",", " ", "1">>,
      <<"[", "1", ",", " ">>,
      LongText }

SleepEvent(secs) ==
    [ev |-> "sleep", secs |-> secs, outcome |-> "", err |-> <<>>]
RequestEvent(outcome, err) ==
    [ev |-> "request", secs |-> 0, outcome |-> outcome, err |-> err]

GeminiInit ==
    /\ attempt = 0
    /\ gpc = "request"
    /\ trace = <<>>
    /\ result = <<>>
    /\ raised = <<>>
    /\ raw_dump = <<>>
    /\ RepairIdle
    /\ ChaptersIdle
    /\ ImagesIdle
    /\ MainIdle

\* A handler that retries after every error, whatever its text.
HandleExceptionRetriesAll(outcome, err) ==
    /\ trace' = Append(trace, RequestEvent(outcome, err))
    /\ IF attempt < max_retries
       THEN /\ attempt' = attempt + 1
            /\ gpc' = "backoff"
            /\ raised' = raised
       ELSE /\ gpc' = "failed"
            /\ raised' = err
            /\ attempt' = attempt
    /\ result' = result

\* Lines 231-239: the handler of an exception whose text is err, raised
\* after the request was issued.
HandleException(outcome, err) ==
    /\ trace' = Append(trace, RequestEvent(outcome, err))
    /\ IF IndicatesRateLimit(err) /\ attempt < max_retries
       THEN /\ attempt' = attempt + 1          \* continue
            /\ gpc' = "backoff"
            /\ raised' = raised
       ELSE /\ gpc' = "failed"                 \* raise
            /\ raised' = err
            /\ attempt' = attempt
    /\ result' = result

\* Lines 196-199: the sleep that opens every attempt but the first.
Backoff ==
    /\ gpc = "backoff"
    /\ trace' = Append(trace, SleepEvent(BackoffDelay(attempt)))
    /\ gpc' = "request"
    /\ UNCHANGED <<attempt, result, raised, raw_dump>>
    /\ UNCHANGED <<repairVars, chapterVars, imageVars, mainVars>>

\* Lines 203-210 raise: the request fails.
RequestFails ==
    /\ gpc = "request"
    /\ \E err \in TransportErrors : HandleException("transport_error", err)
    /\ UNCHANGED raw_dump
    /\ UNCHANGED <<repairVars, chapterVars, imageVars, mainVars>>

\* Line 214 raises IndexError: a fenced response of one line.
FenceFails ==
    /\ gpc = "request"
    /\ \E raw \in ResponseTexts :
           /\ ~CleanResponse(raw).ok
           /\ HandleException("fence_error", MsgIndexError)
    /\ UNCHANGED raw_dump
    /\ UNCHANGED <<repairVars, chapterVars, imageVars, mainVars>>

\* Lines 212-229 return: the text parses as it is or after repair_json.
ResponseParses ==
    /\ gpc = "request"
    /\ \E raw \in ResponseTexts :
           LET c == CleanResponse(raw)
               o == ParseOutcome(c.text)
           IN  /\ c.ok
               /\ o.outcome \in {"parsed", "repaired"}
               /\ raw_dump' = c.text
               /\ trace' = Append(trace, RequestEvent(o.outcome, <<>>))
               /\ result' = o.doc
               /\ gpc' = "succeeded"
    /\ UNCHANGED <<attempt, raised>>
    /\ UNCHANGED <<repairVars, chapterVars, imageVars, mainVars>>

\* Line 229 raises: the repaired text does not parse either.
RepairParseFails ==
    /\ gpc = "request"
    /\ \E raw \in ResponseTexts :
           LET c == CleanResponse(raw)
               o == ParseOutcome(c.text)
           IN  /\ c.ok
               /\ o.outcome = "repair_failed"
               /\ raw_dump' = c.text
               /\ HandleException("repair_failed", o.err)
    /\ UNCHANGED <<repairVars, chapterVars, imageVars, mainVars>>

GeminiNext ==
    Backoff \/ RequestFails \/ FenceFails \/ ResponseParses \/ RepairParseFails

(***************************************************************************)
(* The inputs of extract_images and its steps.                             *)
(***************************************************************************)
\* What a page's image list refers to: an image doc.extract_image returns,
\* or a reference for which it returns None or raises.
EmbeddedImages ==
    { [xref_ok |-> TRUE, image |-> c] : c \in ImageContents }
        \cup { [xref_ok |-> FALSE, image |-> ""] }

\* The image lists of at most n images.
ImageLists(n) == UNION { [1..k -> EmbeddedImages] : k \in 0..n }

\* The documents of at most p pages and at most n images in all.
RECURSIVE Documents(_, _)
Documents(p, n) ==
    IF p = 0 THEN { <<>> }
    ELSE { <<>> } \cup
         UNION { { <<l>> \o d : d \in Documents(p - 1, n - Len(l)) }
                     : l \in ImageLists(n) }

ImagesInit ==
    /\ doc \in Documents(MaxDocPages, MaxImages)
    /\ page_num = 0
    /\ img_index = 0
    /\ extracted = <<>>
    /\ img_counter = 0
    /\ seen_hashes = {}
    /\ files = {}
    /\ ipc = "scan"
    /\ RepairIdle
    /\ ChaptersIdle
    /\ GeminiIdle
    /\ MainIdle

\* Lines 40-45: the loops stand at an image of the current page.
AtImage ==
    /\ ipc = "scan"
    /\ page_num < Len(doc)
    /\ img_index < Len(doc[page_num + 1])

CurrentImage == doc[page_num + 1][img_index + 1]

\* Lines 47-49, 85-86: extract_image returns None or raises.
ExtractFails ==
    /\ AtImage
    /\ ~CurrentImage.xref_ok
    /\ img_index' = img_index + 1
    /\ UNCHANGED <<doc, page_num, extracted, img_counter, seen_hashes, files, ipc>>
    /\ UNCHANGED <<repairVars, chapterVars, geminiVars, mainVars>>

\* Lines 53-54: fewer bytes than min_size.
SkipTiny ==
    /\ AtImage
    /\ CurrentImage.xref_ok
    /\ TooFewBytes(CurrentImage.image)
    /\ img_index' = img_index + 1
    /\ UNCHANGED <<doc, page_num, extracted, img_counter, seen_hashes, files, ipc>>
    /\ UNCHANGED <<repairVars, chapterVars, geminiVars, mainVars>>

\* Lines 57-59: the hash was seen.
SkipDuplicate ==
    /\ AtImage
    /\ CurrentImage.xref_ok
    /\ ~TooFewBytes(CurrentImage.image)
    /\ Md5(CurrentImage.image) \in seen_hashes
    /\ img_index' = img_index + 1
    /\ UNCHANGED <<doc, page_num, extracted, img_counter, seen_hashes, files, ipc>>
    /\ UNCHANGED <<repairVars, chapterVars, geminiVars, mainVars>>

\* Lines 60-68: the hash is recorded, and the dimensions are too small.
SkipSmallDimensions ==
    /\ AtImage
    /\ CurrentImage.xref_ok
    /\ ~TooFewBytes(CurrentImage.image)
    /\ Md5(CurrentImage.image) \notin seen_hashes
    /\ seen_hashes' = SeenAdd(seen_hashes, Md5(CurrentImage.image))
    /\ TooSmall(CurrentImage.image)
    /\ img_index' = img_index + 1
    /\ UNCHANGED <<doc, page_num, extracted, img_counter, files, ipc>>
    /\ UNCHANGED <<repairVars, chapterVars, geminiVars, mainVars>>

\* Lines 60-84: the hash is recorded, the file written, the record appended.
SaveImage ==
    /\ AtImage
    /\ CurrentImage.xref_ok
    /\ ~TooFewBytes(CurrentImage.image)
    /\ Md5(CurrentImage.image) \notin seen_hashes
    /\ seen_hashes' = SeenAdd(seen_hashes, Md5(CurrentImage.image))
    /\ ~TooSmall(CurrentImage.image)
    /\ img_counter' = img_counter + 1
    /\ LET c == CurrentImage.image
           filename == Filename(page_num, img_counter', ExtOf(c))
       IN  /\ files' = Written(files, filename, c)
           /\ extracted' = Append(extracted, ImageRecord(filename, page_num, c))
    /\ img_index' = img_index + 1
    /\ UNCHANGED <<doc, page_num, ipc>>
    /\ UNCHANGED <<repairVars, chapterVars, geminiVars, mainVars>>

\* Lines 40-44: the image list of the page is exhausted.
NextPage ==
    /\ ipc = "scan"
    /\ page_num < Len(doc)
    /\ img_index = Len(doc[page_num + 1])
    /\ page_num' = page_num + 1
    /\ img_index' = 0
    /\ UNCHANGED <<doc, extracted, img_counter, seen_hashes, files, ipc>>
    /\ UNCHANGED <<repairVars, chapterVars, geminiVars, mainVars>>

\* Lines 88-89: the pages are exhausted; extracted is returned.
Return ==
    /\ ipc = "scan"
    /\ page_num = Len(doc)
    /\ ipc' = "done"
    /\ UNCHANGED <<doc, page_num, img_index, extracted, img_counter, seen_hashes, files>>
    /\ UNCHANGED <<repairVars, chapterVars, geminiVars, mainVars>>

ImagesNext ==
    \/ ExtractFails \/ SkipTiny \/ SkipDuplicate \/ SkipSmallDimensions
    \/ SaveImage \/ NextPage \/ Return

(***************************************************************************)
(* The inputs of main and its steps.  A call of call_gemini is one step    *)
(* here: it returns a parsed document or raises.                           *)
(***************************************************************************)
MemberKeys == {"meta", "books", "chapters_detail"}
MemberValues ==
    { JNumber(1), JArray(<<>>), JArray(<<JNumber(1)>>), JObject(<<>>) }

\* The member lists of at most n members, with distinct keys.
RECURSIVE MemberSeqs(_)
MemberSeqs(n) ==
    IF n = 0 THEN { <<>> }
    ELSE LET shorter == MemberSeqs(n - 1) IN
         shorter \cup
         { Append(ms, Member(k, v)) :
               ms \in { s \in shorter : Len(s) = n - 1 },
               k \in MemberKeys, v \in MemberValues }

DistinctKeys(ms) ==
    \A i, j \in 1..Len(ms) : ms[i].key = ms[j].key => i = j

\* What call_gemini returns: an object, or valid JSON that is no object.
ResultDocs ==
    { JObject(ms) : ms \in { s \in MemberSeqs(MaxMembers) : DistinctKeys(s) } }
        \cup { JArray(<<JNumber(1)>>), JNumber(1) }

\* What call_gemini raises.
CallErrors == { "429 Too Many Requests", "Expecting value" }

CallEvent(label, outcome) ==
    [ev |-> "call", label |-> label, outcome |-> outcome, secs |-> 0]
PauseEvent(secs) ==
    [ev |-> "sleep", label |-> "", outcome |-> "", secs |-> secs]

MainInit ==
    /\ mpc = "pass1"
    /\ log = <<>>
    /\ pass1 = JObject(<<>>)
    /\ pass2 = JObject(<<>>)
    /\ output = NoFile
    /\ exc = ""
    /\ RepairIdle
    /\ ChaptersIdle
    /\ GeminiIdle
    /\ ImagesIdle

\* Line 264 raises: the structural pass fails, and main ends with its error.
Pass1Fails ==
    /\ mpc = "pass1"
    /\ \E err \in CallErrors : exc' = err
    /\ log' = Append(log, CallEvent("pass1", "failed"))
    /\ mpc' = "crashed"
    /\ UNCHANGED <<pass1, pass2, output>>
    /\ UNCHANGED <<repairVars, chapterVars, geminiVars, imageVars>>

\* Lines 264-267: the structural pass returns, and its summary is printed.
Pass1Succeeds ==
    /\ mpc = "pass1"
    /\ \E d \in ResultDocs :
           /\ pass1' = d
           /\ exc' = SummaryError(d)
           /\ mpc' = IF SummaryError(d) = "" THEN "pause" ELSE "crashed"
    /\ log' = Append(log, CallEvent("pass1", "succeeded"))
    /\ UNCHANGED <<pass2, output>>
    /\ UNCHANGED <<repairVars, chapterVars, geminiVars, imageVars>>

\* Line 271: time.sleep(15)
Pause ==
    /\ mpc = "pause"
    /\ log' = Append(log, PauseEvent(PauseSeconds))
    /\ mpc' = "pass2"
    /\ UNCHANGED <<pass1, pass2, output, exc>>
    /\ UNCHANGED <<repairVars, chapterVars, geminiVars, imageVars>>

\* Line 275 raises: the detail pass fails.
Pass2Fails ==
    /\ mpc = "pass2"
    /\ \E err \in CallErrors : exc' = err
    /\ log' = Append(log, CallEvent("pass2", "failed"))
    /\ mpc' = "crashed"
    /\ UNCHANGED <<pass1, pass2, output>>
    /\ UNCHANGED <<repairVars, chapterVars, geminiVars, imageVars>>

\* Lines 275-294: the detail pass returns; its chapters_detail is read and
\* counted, the merge is written, and the report is printed.
Pass2Succeeds ==
    /\ mpc = "pass2"
    /\ log' = Append(log, CallEvent("pass2", "succeeded"))
    /\ \E d \in ResultDocs :
           /\ pass2' = d
           /\ IF DetailError(d) # ""
              THEN /\ exc' = DetailError(d)
                   /\ mpc' = "crashed"
                   /\ output' = output
              ELSE LET book_data == Merge(pass1, ChaptersDetail(d)) IN
                   /\ output' = Dumped(book_data)
                   /\ exc' = ReportError(book_data)
                   /\ mpc' = IF ReportError(book_data) = "" THEN "done" ELSE "crashed"
    /\ UNCHANGED pass1
    /\ UNCHANGED <<repairVars, chapterVars, geminiVars, imageVars>>

MainNext ==
    Pass1Fails \/ Pass1Succeeds \/ Pause \/ Pass2Fails \/ Pass2Succeeds

(***************************************************************************)
(* The specifications: one per tool.                                       *)
(***************************************************************************)
SpecRepair == RepairInit /\ [][RepairNext]_vars

SpecRepairTwice == RepairTwiceInit /\ [][RepairTwiceNext]_vars

SpecChapters == ChaptersInit /\ [][ChaptersNext]_vars

SpecGemini == GeminiInit /\ [][GeminiNext]_vars

SpecImages == ImagesInit /\ [][ImagesNext]_vars

SpecMain == MainInit /\ [][MainNext]_vars


(***************************************************************************)
(* Properties of repair_json.                                              *)
(***************************************************************************)

\* Offset n of s lies outside every string literal of s.
OutsideString(s, n) ==
    LET st == Scan(Prefix(s, n)) IN ~st.in_string /\ ~st.escape

\* C1: for every JSON value and every offset of its serialization that lies
\* outside any string literal, repair_json of the text cut at that offset
\* parses as JSON.  Stated for the cuts that leave a non-empty proper prefix.
C1_RepairedTruncationParses ==
    (rpc = "done" /\ IsJSON(full) /\ cut > 0 /\ cut < Len(full)
        /\ OutsideString(full, cut))
    => IsJSON(out)

\* C2: repair_json returns every valid JSON text unchanged.
C2_ValidJSONUnchanged ==
    (rpc = "done" /\ IsJSON(text)) => out = text

\* C2's case: a valid nested text with a bracket and an escaped quote inside
\* a string, ["[\""], has been repaired.
C2_Witness ==
    /\ rpc = "done"
    /\ text = <<"[", QUOTE, "[", BACKSLASH, QUOTE, QUOTE, "]">>
    /\ IsJSON(text)
    /\ out = text

\* C13: repair_json is idempotent: applied to its own result it returns
\* the result unchanged, and the scan of every result of repair_json ends
\* with an empty stack of open brackets.
C13_RepairIdempotent ==
    /\ rpc = "again" => out = text
    /\ rpc \in {"done", "again"} => Scan(out).stack = <<>>

\* C13, its case: a text whose scan ends with two or more open brackets,
\* after a bracket was closed, has been repaired to another text, and that
\* text has been repaired again.
C13_Witness ==
    /\ rpc = "again"
    /\ text # full
    /\ Scan(full).last_valid > 0
    /\ Len(Scan(full).stack) >= 2

(***************************************************************************)
(* Properties of detect_chapters.                                          *)
(***************************************************************************)

\* The pages of the chapters chs, in order.
RECURSIVE ConcatPages(_)
ConcatPages(chs) ==
    IF chs = <<>> THEN <<>> ELSE chs[1].pages \o ConcatPages(Tail(chs))

HasHeading(page) == \E n \in 1..NumPatterns : PatternMatches(n, page.text)

\* The result is the front-matter chapter alone, holding every page.
OneFrontMatterChapter ==
    /\ Len(chapters) = 1
    /\ chapters[1].chapter_num = 0
    /\ chapters[1].title = TitleFrontMatter
    /\ chapters[1].pages = pages

\* C3, as claimed: every page sequence of fewer than 6 pages, whatever its
\* page numbers and texts, yields exactly one chapter, the front matter
\* holding the whole document.
C3_FewerThanSixPagesOneChapter ==
    (dpc = "done" /\ Len(pages) < 6) => OneFrontMatterChapter

\* C3, amended: every non-empty page sequence whose page numbers are all at
\* most 5 yields exactly one chapter, the front matter holding the whole
\* document.
C3_EarlyPagesOneChapter ==
    (dpc = "done" /\ pages # <<>>
        /\ \A i \in 1..Len(pages) : pages[i].page_num <= 5)
    => OneFrontMatterChapter

\* C3's case: three early pages, one of them with a heading, were segmented.
C3_Witness ==
    /\ dpc = "done"
    /\ Len(pages) = 3
    /\ \A i \in 1..Len(pages) : pages[i].page_num <= 5
    /\ \E i \in 1..Len(pages) : HasHeading(pages[i])
    /\ OneFrontMatterChapter

\* C4: the chapters returned partition the input: their pages, concatenated
\* in output order, are the input page sequence.
C4_ChaptersPartitionPages ==
    dpc = "done" => ConcatPages(chapters) = pages

\* C4's case: a front matter of two pages followed by a chapter.
C4_Witness ==
    /\ dpc = "done"
    /\ Len(chapters) = 2
    /\ Len(chapters[1].pages) = 2
    /\ chapters[2].pages = <<pages[3]>>

\* C5: on the seven example pages the result is front matter (chapter_num 0,
\* pages 1-5) followed by chapter_num 1 with pages 6-7.
C5_ExampleTwoChapters ==
    (dpc = "done" /\ pages = ExamplePages)
    => /\ Len(chapters) = 2
       /\ chapters[1].chapter_num = 0
       /\ chapters[1].start_page = 1 /\ chapters[1].end_page = 5
       /\ chapters[2].chapter_num = 1
       /\ chapters[2].start_page = 6 /\ chapters[2].end_page = 7

\* C9: (the input has strictly increasing page_num) the chapters have
\* strictly increasing chapter_num, start_page <= end_page, and between the
\* end of one and the start of the next there is no overlap and no input page.
C9_ChaptersContiguous ==
    dpc = "done" =>
        /\ \A i \in 1..Len(chapters) :
               chapters[i].start_page <= chapters[i].end_page
        /\ \A i \in 1..(Len(chapters) - 1) :
               /\ chapters[i].chapter_num < chapters[i + 1].chapter_num
               /\ chapters[i].end_page < chapters[i + 1].start_page
               /\ \A k \in 1..Len(pages) :
                      ~(/\ chapters[i].end_page < pages[k].page_num
                        /\ pages[k].page_num < chapters[i + 1].start_page)

\* C9's case: three chapters, with blank pages dropped between the first two.
C9_Witness ==
    /\ dpc = "done"
    /\ Len(chapters) = 3
    /\ chapters[1].end_page + 1 < chapters[2].start_page

\* C10: a page with page_num <= 5 is appended to the accumulator that is
\* current when it is scanned, and every returned chapter that a heading
\* started has start_page > 5.
C10_HeadingOnlyBeyondPage5 ==
    /\ [][(dpc = "scan" /\ idx < Len(pages) /\ pages[idx + 1].page_num <= 5)
            => /\ current_chapter' =
                      [current_chapter EXCEPT !.pages = Append(@, pages[idx + 1])]
               /\ chapters' = chapters]_vars
    /\ [](dpc = "done" =>
            \A i \in 1..Len(chapters) :
                chapters[i].chapter_num # 0 => chapters[i].start_page > 5)

\* C10's case: a heading on an early page was passed over and a later
\* heading started a chapter.
C10_Witness ==
    /\ dpc = "done"
    /\ \E i \in 1..Len(pages) : pages[i].page_num <= 5 /\ HasHeading(pages[i])
    /\ \E i \in 1..Len(chapters) : chapters[i].chapter_num # 0

(***************************************************************************)
(* call_gemini: the claims.                                                *)
(***************************************************************************)
\* The requests of the call so far, in order.
Requests == SelectSeq(trace, LAMBDA e : e.ev = "request")

\* Every request of the call so far failed with a rate-limit error.
AllRequestsRateLimited ==
    \A i \in 1..Len(trace) :
        trace[i].ev = "request" =>
            /\ trace[i].outcome \notin {"parsed", "repaired"}
            /\ IndicatesRateLimit(trace[i].err)

ExpectedSleeps == <<30, 60, 120>>

\* C6: when every request of a call fails with a rate-limit error, the call
\* alternates requests and sleeps, starting with a request; the sleeps are of
\* 30, 60 and 120 seconds, in this order; the call has not failed before its
\* 4th request, and with the 4th request it fails, propagating its error,
\* with no sleep after it.
C6_RateLimitedCallBacksOff ==
    AllRequestsRateLimited =>
        /\ Len(Requests) <= 4
        /\ \A i \in 1..Len(trace) :
               IF i % 2 = 1 THEN trace[i].ev = "request"
               ELSE trace[i] = SleepEvent(ExpectedSleeps[i \div 2])
        /\ gpc # "succeeded"
        /\ gpc = "failed" <=> (Len(trace) = 7 /\ Len(Requests) = 4)
        /\ gpc = "failed" => raised = trace[7].err
        /\ gpc = "backoff" <=> (Len(trace) % 2 = 1 /\ Len(trace) < 7)

\* C6, its case: a call whose 4 requests all failed with a rate-limit error
\* has failed.
C6_Witness ==
    /\ gpc = "failed"
    /\ AllRequestsRateLimited
    /\ Len(Requests) = 4
    /\ Len(trace) = 7

\* C7: a request whose response fails the strict parse and, repaired, fails
\* to parse again, is the last event of the call, and the call has failed:
\* no sleep and no request follows it.
C7_RepairParseFailureIsFatal ==
    \A i \in 1..Len(trace) :
        trace[i].outcome = "repair_failed" =>
            /\ i = Len(trace)
            /\ gpc = "failed"

\* The request at position i of the trace failed with an error that carries
\* none of the indicators of line 233.
FailedWithoutIndicator(i) ==
    /\ trace[i].ev = "request"
    /\ trace[i].outcome \notin {"parsed", "repaired"}
    /\ ~IndicatesRateLimit(trace[i].err)

\* C11: a request that fails with an error carrying no rate-limit or quota
\* indicator is the last event of the call, whatever preceded it: the call
\* has failed and has propagated that error, and no sleep and no request
\* follows.
C11_OtherErrorsFailAtOnce ==
    \A i \in 1..Len(trace) :
        FailedWithoutIndicator(i) =>
            /\ i = Len(trace)
            /\ gpc = "failed"
            /\ raised = trace[i].err

\* C11, its case: after two rate-limited requests and their sleeps, the
\* third request has failed with an error that carries no indicator.
C11_Witness ==
    /\ Len(trace) = 5
    /\ FailedWithoutIndicator(5)
    /\ IndicatesRateLimit(trace[1].err)
    /\ IndicatesRateLimit(trace[3].err)
    /\ gpc = "failed"

(***************************************************************************)
(* extract_images: the claims.                                             *)
(***************************************************************************)
\* The pages (numbered from 1) that hold an extractable image of content c.
PagesHolding(c) ==
    { p \in 1..Len(doc) :
        \E i \in 1..Len(doc[p]) : doc[p][i].xref_ok /\ doc[p][i].image = c }

\* The records of the result whose file holds content c.
RecordsOf(c) ==
    { k \in 1..Len(extracted) :
        \E f \in files : f.name = extracted[k].filename /\ f.bytes = c }

\* The content passes the byte-size floor and the dimension floor.
PassesFloors(c) == ~TooFewBytes(c) /\ ~TooSmall(c)

\* C8: when extract_images has returned, every content that passes both
\* floors and is embedded on two or more different pages has exactly one
\* record and exactly one written file, and the record names the first of
\* these pages.
C8_DuplicateImagesOneRecord ==
    ipc = "done" =>
        \A c \in ImageContents :
            (PassesFloors(c) /\ Cardinality(PagesHolding(c)) >= 2) =>
                /\ Cardinality(RecordsOf(c)) = 1
                /\ Cardinality({ f \in files : f.bytes = c }) = 1
                /\ \A k \in RecordsOf(c) :
                       /\ extracted[k].page_num \in PagesHolding(c)
                       /\ \A p \in PagesHolding(c) : extracted[k].page_num <= p

\* C8, its case: the call has returned from a document that embeds one
\* content above the floors on two different pages, after another image
\* was saved, and the content has a record.
C8_Witness ==
    /\ ipc = "done"
    /\ \E c \in ImageContents :
           /\ PassesFloors(c)
           /\ Cardinality(PagesHolding(c)) >= 2
           /\ RecordsOf(c) # {}
           /\ Len(extracted) = 2

(***************************************************************************)
(* main of analyze_book.py: the claims.                                    *)
(***************************************************************************)
\* The keys of the object d.
KeysOf(d) == { d.members[i].key : i \in 1..Len(d.members) }

\* C12: main calls the detail pass only as its third step, after a
\* structural pass that succeeded and the pause of 15 seconds; once the
\* structural pass has failed nothing follows it and no output file exists;
\* and an output file exists only after both passes succeeded, and then it
\* holds an object with the keys of the structural result and
\* chapters_detail, every key other than chapters_detail with the value the
\* structural result gives it, and chapters_detail with the value the detail
\* result gives it, the empty list when it gives none.
C12_DetailAfterStructuralAndMerge ==
    /\ \A i \in 1..Len(log) :
           (log[i].ev = "call" /\ log[i].label = "pass2") =>
               /\ i = 3
               /\ log[1] = CallEvent("pass1", "succeeded")
               /\ log[2] = PauseEvent(15)
    /\ (Len(log) >= 1 /\ log[1] = CallEvent("pass1", "failed")) =>
           /\ Len(log) = 1
           /\ ~output.written
    /\ output.written =>
           /\ Len(log) = 3
           /\ log[1] = CallEvent("pass1", "succeeded")
           /\ log[3] = CallEvent("pass2", "succeeded")
           /\ output.document.type = "object"
           /\ KeysOf(output.document) = KeysOf(pass1) \cup {"chapters_detail"}
           /\ \A k \in KeysOf(pass1) \ {"chapters_detail"} :
                  Get(output.document, k, JNumber(0)) = Get(pass1, k, JNumber(1))
           /\ Get(output.document, "chapters_detail", JNumber(0)) =
                  IF "chapters_detail" \in KeysOf(pass2)
                  THEN Get(pass2, "chapters_detail", JNumber(0))
                  ELSE JArray(<<>>)

\* C12, its case: both passes succeeded and the file is written, from a
\* structural result that has a chapters_detail of its own and another key,
\* and a detail result with a different chapters_detail.
C12_Witness ==
    /\ output.written
    /\ mpc = "done"
    /\ KeysOf(pass1) = {"books", "chapters_detail"}
    /\ "chapters_detail" \in KeysOf(pass2)
    /\ Get(pass1, "chapters_detail", JNumber(0)) # Get(pass2, "chapters_detail", JNumber(0))

=============================================================================
